---- MODULE Spec2Model ----
(***************************************************************************)
(* Model of analyze_csv.py (the ingestion loop, the outcome bucketing, the *)
(* statistical measures and the false-positive report) and of models.py    *)
(* (ClusterVerifierRecord and its from_dict).                              *)
(*                                                                         *)
(* models.py imports csv_bool_to_bool, is_nully_str and is_valid_url from  *)
(* util, and analyze_csv.py uses Outcome, ClusterVerifierRecord.__iadd__,  *)
(* is_hostedcluster, get_outcome and get_egress_failures; none of these is *)
(* in the available sources, so they are modelled from spec.md (sections   *)
(* 3, 4.2, 4.3, 4.4) and marked so where they are defined.                 *)
(***************************************************************************)
EXTENDS Integers, Sequences, FiniteSets, TLC

\* ------------------------------------------------------------------ bounds
\* Timestamps are the instants 1..MaxTime.
MaxTime == 2
\* The CSV file under analysis has at most MaxRows rows.
MaxRows == 2
\* The order-of-folding study folds FoldLen observations of one cluster.
FoldLen == 3

\* ------------------------------------------------------------- value spaces
\* Python's None, and Optional[bool] as the three values None / True3 / False3.
None == "None"
True3 == "True"
False3 == "False"
Tri == {None, True3, False3}

Cids == {"c1", "c2"}
Times == 1..MaxTime

\* ocm_inflight_states is a list when it is not None; the absent list is kept
\* apart from every list of states (the empty one included) as NoStates.
NoStates == <<None>>

\* A csv.DictReader row holds None for a column a short row does not reach.
Missing == "<missing>"

\* str.strip() on the tokens of the model.
strip(s) ==
    CASE s = " c1 " -> "c1"
      [] s = "   " -> ""
      [] s = " ready" -> "ready"
      [] s = " alpha " -> "alpha"
      [] OTHER -> s

\* str.lower() on the tokens of the model.
lower(s) ==
    CASE s = "TRUE" -> "true"
      [] s = "False" -> "false"
      [] s = "READY" -> "ready"
      [] OTHER -> s

\* util.is_nully_str: a blank string is "nully" (spec.md section 3: blank/absent).
is_nully_str(s) == strip(s) = ""

\* util.csv_bool_to_bool (spec.md section 3): blank -> unknown, case-insensitive
\* "true"/"false" -> definite, any other token -> a hard failure.
csv_bool_to_bool(s) ==
    IF is_nully_str(s) THEN [ok |-> TRUE, v |-> None]
    ELSE IF lower(strip(s)) = "true" THEN [ok |-> TRUE, v |-> True3]
    ELSE IF lower(strip(s)) = "false" THEN [ok |-> TRUE, v |-> False3]
    ELSE [ok |-> FALSE, v |-> None]

\* util.is_valid_url (spec.md section 4.1): well-formed or not.
ValidUrls == {"https://logs/1", "https://logs/2"}
is_valid_url(s) == s \in ValidUrls

\* OCMState and InFlightState: the values of the two Enums.
OCMStateValues ==
    {"validating", "waiting", "pending", "installing", "ready", "error",
     "uninstalling", "unknown", "powering_down", "resuming", "hibernating"}
InFlightStateValues == {"pending", "running", "passed", "failed"}

\* A lookup that takes a value the Enum does not have for an absent state.
OCMStateLenient(value) ==
    IF value \in OCMStateValues THEN [ok |-> TRUE, v |-> value]
    ELSE [ok |-> TRUE, v |-> None]

\* OCMState(value): the member with that value, or ValueError.
OCMState(value) ==
    IF value \in OCMStateValues THEN [ok |-> TRUE, v |-> value]
    ELSE [ok |-> FALSE, v |-> None]

\* InFlightState(value): the member with that value, or ValueError.
InFlightState(value) ==
    IF value \in InFlightStateValues THEN [ok |-> TRUE, v |-> value]
    ELSE [ok |-> FALSE, v |-> None]

\* json.loads of the ocm_inflight_states tokens of the model: the decoded list,
\* or a failure (json.JSONDecodeError is a ValueError).
json_loads(s) ==
    CASE s = "[\"passed\"]" -> [ok |-> TRUE, v |-> <<"passed">>]
      [] s = "[\"running\",\"failed\"]" -> [ok |-> TRUE, v |-> <<"running", "failed">>]
      [] s = "[\"bogus\"]" -> [ok |-> TRUE, v |-> <<"bogus">>]
      [] s = "[]" -> [ok |-> TRUE, v |-> <<>>]
      [] OTHER -> [ok |-> FALSE, v |-> <<>>]

\* datetime.fromisoformat(s.replace("Z", "+00:00")) on the timestamp tokens of
\* the model: a token is [t, form]; form "Z" and "+00:00" give an aware datetime,
\* "naive" one without tzinfo, "bad" is no ISO-8601 string.
fromisoformat(tok) ==
    IF tok.form = "bad" THEN [ok |-> FALSE, v |-> [t |-> 0, tz |-> None]]
    ELSE [ok |-> TRUE,
          v |-> [t |-> tok.t, tz |-> IF tok.form = "naive" THEN None ELSE "utc"]]

Fail(e) == [ok |-> FALSE, err |-> e, cvr |-> None]

\* ClusterVerifierRecord.from_dict: the record, or the exception that ends it.
from_dict(in_dict) ==
    LET ts == fromisoformat(in_dict.timestamp)
        s3 == csv_bool_to_bool(in_dict.found_verifier_s3_logs)
        atp == csv_bool_to_bool(in_dict.found_all_tests_passed)
        egr == csv_bool_to_bool(in_dict.found_egress_failures)
        ocm_state_str == strip(lower(in_dict.ocm_state))
        ocm_inflight_states_str == strip(in_dict.ocm_inflight_states)
        js == json_loads(in_dict.ocm_inflight_states)
    IN  IF ~ts.ok THEN Fail("ValueError")
        ELSE IF in_dict.cid = Missing THEN Fail("AttributeError")
        ELSE IF is_nully_str(strip(in_dict.cid)) THEN Fail("ValueError")
        ELSE IF ~s3.ok \/ ~atp.ok \/ ~egr.ok THEN Fail("ValueError")
        ELSE IF ~is_nully_str(ocm_state_str) /\ ~OCMState(ocm_state_str).ok
             THEN Fail("ValueError")
        ELSE IF ~is_nully_str(ocm_inflight_states_str)
                /\ (~js.ok \/ \E i \in 1..Len(js.v) : ~InFlightState(js.v[i]).ok)
             THEN Fail("ValueError")
        ELSE [ok |-> TRUE, err |-> None,
              cvr |-> [timestamp |-> ts.v,
                       cid |-> strip(in_dict.cid),
                       cname |-> IF is_nully_str(in_dict.cname) THEN None
                                 ELSE strip(in_dict.cname),
                       ocm_state |-> IF is_nully_str(ocm_state_str) THEN None
                                     ELSE OCMState(ocm_state_str).v,
                       ocm_inflight_states |->
                           IF is_nully_str(ocm_inflight_states_str) THEN NoStates
                           ELSE [i \in 1..Len(js.v) |-> InFlightState(js.v[i]).v],
                       found_verifier_s3_logs |-> s3.v,
                       found_all_tests_passed |-> atp.v,
                       found_egress_failures |-> egr.v,
                       log_download_url |->
                           IF is_valid_url(in_dict.log_download_url)
                           THEN in_dict.log_download_url ELSE None]]


\* ------------------------------------------ ClusterVerifierRecord, the rest
\* The merge of the three tri-state fields (spec.md section 4.2). An unknown
\* operand never erases what the other one knows (section 3).
\* found_egress_failures, found_verifier_s3_logs: true if any observation is true.
AnyTrue(x, y) ==
    IF x = True3 \/ y = True3 THEN True3
    ELSE IF x = False3 \/ y = False3 THEN False3
    ELSE None

\* found_all_tests_passed: true only if every observation that knows is true.
AllTrue(x, y) ==
    IF x = False3 \/ y = False3 THEN False3
    ELSE IF x = True3 \/ y = True3 THEN True3
    ELSE None

\* A merge that keeps the value of the older observation.
MostRecentOlder(a, b, x, y, none) ==
    IF b.timestamp.t > a.timestamp.t /\ x # none THEN x
    ELSE IF y # none THEN y
    ELSE x

\* Lifecycle state, in-flight states, log URL: the most recent observation that
\* has a value wins.
MostRecent(a, b, x, y, none) ==
    IF b.timestamp.t > a.timestamp.t /\ y # none THEN y
    ELSE IF x # none THEN x
    ELSE y

\* ClusterVerifierRecord.__iadd__, the `cvrs[cvr.cid] += cvr` of the ingestion
\* loop: existing += incoming (spec.md section 4.2).
Merge(existing, incoming) ==
    [timestamp |-> IF incoming.timestamp.t > existing.timestamp.t
                   THEN incoming.timestamp ELSE existing.timestamp,
     cid |-> existing.cid,
     cname |-> IF existing.cname # None THEN existing.cname ELSE incoming.cname,
     ocm_state |-> MostRecent(existing, incoming,
                              existing.ocm_state, incoming.ocm_state, None),
     ocm_inflight_states |-> MostRecent(existing, incoming,
                                        existing.ocm_inflight_states,
                                        incoming.ocm_inflight_states, NoStates),
     found_verifier_s3_logs |-> AnyTrue(existing.found_verifier_s3_logs,
                                        incoming.found_verifier_s3_logs),
     found_all_tests_passed |-> AllTrue(existing.found_all_tests_passed,
                                        incoming.found_all_tests_passed),
     found_egress_failures |-> AnyTrue(existing.found_egress_failures,
                                       incoming.found_egress_failures),
     log_download_url |-> MostRecent(existing, incoming,
                                     existing.log_download_url,
                                     incoming.log_download_url, None)]

\* Outcome (spec.md section 3).
Outcome ==
    {"TRUE_POSITIVE", "TRUE_NEGATIVE", "FALSE_POSITIVE", "FALSE_NEGATIVE", "UNKNOWN"}

\* The detection signal of get_outcome (spec.md section 4.4): whether the
\* verifier's own check reported a failure. It is known only when the verifier's
\* logs were found and they say whether all tests passed.
Detection(cvr) ==
    IF cvr.found_verifier_s3_logs # True3 \/ cvr.found_all_tests_passed = None
    THEN None
    ELSE IF cvr.found_all_tests_passed = False3 THEN True3 ELSE False3

\* A classification that returns None when a signal is unknown.
get_outcome_or_none(cvr) ==
    IF cvr.found_egress_failures = None \/ Detection(cvr) = None THEN None
    ELSE IF cvr.found_egress_failures = True3
         THEN (IF Detection(cvr) = True3 THEN "TRUE_POSITIVE" ELSE "FALSE_NEGATIVE")
         ELSE (IF Detection(cvr) = True3 THEN "FALSE_POSITIVE" ELSE "TRUE_NEGATIVE")

\* ClusterVerifierRecord.get_outcome (spec.md section 4.4): ground truth from
\* found_egress_failures, detection from Detection; UNKNOWN if either is unknown.
get_outcome(cvr) ==
    LET truth == cvr.found_egress_failures
        det == Detection(cvr)
    IN  IF truth = None \/ det = None THEN "UNKNOWN"
        ELSE IF truth = True3 /\ det = True3 THEN "TRUE_POSITIVE"
        ELSE IF truth = False3 /\ det = False3 THEN "TRUE_NEGATIVE"
        ELSE IF truth = False3 /\ det = True3 THEN "FALSE_POSITIVE"
        ELSE "FALSE_NEGATIVE"

\* ClusterVerifierRecord.get_egress_failures: the endpoints the verifier's log
\* of a cluster names (spec.md section 6, the endpoint frequency table).
get_egress_failures(cid) ==
    IF cid = "c1" THEN <<"ep1">> ELSE <<"ep1", "ep2">>

EmptyMap == [c \in {} |-> None]

\* ClusterVerifierRecord.is_hostedcluster(cache=...): answered from the cache
\* when one is given and holds the id, else by one call to the external service
\* (spec.md section 4.3). svc is the set of hosted cluster ids the service knows;
\* n counts the external calls per id.
is_hostedcluster(cid, cache, useCache, svc, n) ==
    IF useCache /\ cid \in DOMAIN cache
    THEN [v |-> cache[cid], cache |-> cache, n |-> n]
    ELSE [v |-> cid \in svc,
          cache |-> IF useCache
                    THEN [c \in DOMAIN cache \cup {cid} |->
                             IF c = cid THEN cid \in svc ELSE cache[c]]
                    ELSE cache,
          n |-> [n EXCEPT ![cid] = @ + 1]]


\* ------------------------------------------------------- the rows of a file
\* What a run of the verifier leaves in the three boolean columns: its logs
\* were found and all tests passed, its logs were found and a test failed, or
\* no logs were found and nothing is known of the tests.
VerifierRuns == {<<"true", "true">>, <<"true", "False">>, <<"", "">>}
GoodBools == {"", "true", "False"}

\* A well-formed row.
BaseRow ==
    [timestamp |-> [t |-> 1, form |-> "Z"], cid |-> "c1", cname |-> "alpha",
     ocm_state |-> "ready", ocm_inflight_states |-> "[\"passed\"]",
     found_verifier_s3_logs |-> "true", found_all_tests_passed |-> "true",
     found_egress_failures |-> "False", log_download_url |-> "https://logs/1"]

\* Well-formed rows: every instant, cluster id, run of the verifier and value
\* of found_egress_failures.
GoodRows ==
    {[BaseRow EXCEPT !.timestamp = [t |-> t, form |-> "Z"], !.cid = c,
                     !.found_verifier_s3_logs = r[1],
                     !.found_all_tests_passed = r[2],
                     !.found_egress_failures = e] :
        t \in Times, c \in Cids, r \in VerifierRuns, e \in GoodBools}

\* Rows with one unusual column: other spellings of good values, and values
\* from_dict has to reject.
OddRows ==
    {[BaseRow EXCEPT !.timestamp = [t |-> 1, form |-> f]] :
        f \in {"+00:00", "naive", "bad"}}
    \cup {[BaseRow EXCEPT !.cid = x] : x \in {" c1 ", "", "   ", Missing}}
    \cup {[BaseRow EXCEPT !.cname = x] : x \in {""}}
    \cup {[BaseRow EXCEPT !.ocm_state = x] : x \in {"READY", " ready", "", "bogus"}}
    \cup {[BaseRow EXCEPT !.ocm_inflight_states = x] :
             x \in {"", "[]", "[\"running\",\"failed\"]", "[\"bogus\"]", "not json"}}
    \cup {[BaseRow EXCEPT !.found_verifier_s3_logs = x] : x \in {"TRUE", "maybe"}}
    \cup {[BaseRow EXCEPT !.found_all_tests_passed = x] : x \in {"maybe"}}
    \cup {[BaseRow EXCEPT !.found_egress_failures = x] : x \in {"maybe"}}
    \cup {[BaseRow EXCEPT !.log_download_url = x] : x \in {"https://logs/2", "not a url"}}

RawRows == GoodRows \cup OddRows


\* Observations of cluster c1 for the study of the merge: every combination of
\* the three boolean columns, and every combination of the other columns.
MergeRows ==
    {[BaseRow EXCEPT !.timestamp = [t |-> t, form |-> "Z"],
                     !.found_verifier_s3_logs = b[1],
                     !.found_all_tests_passed = b[2],
                     !.found_egress_failures = b[3]] :
        t \in Times, b \in GoodBools \X GoodBools \X GoodBools}
    \cup {[BaseRow EXCEPT !.timestamp = [t |-> t, form |-> "Z"],
                          !.cname = n, !.ocm_state = o,
                          !.ocm_inflight_states = f, !.log_download_url = u] :
             t \in Times, n \in {"", "alpha", "beta"},
             o \in {"", "ready", "installing"}, f \in {"", "[\"passed\"]"},
             u \in {"not a url", "https://logs/1", "https://logs/2"}}

\* Observations of cluster c1 at one instant for the study of the folding order.
FoldRows ==
    {[BaseRow EXCEPT !.found_verifier_s3_logs = r[1],
                     !.found_all_tests_passed = r[2],
                     !.found_egress_failures = e] :
        r \in VerifierRuns, e \in GoodBools}

\* Merged records for the study of the classification: cluster c at instant 1
\* with every combination of the three boolean fields.
ClassifyRows(c) ==
    {[BaseRow EXCEPT !.cid = c,
                     !.found_verifier_s3_logs = b[1],
                     !.found_all_tests_passed = b[2],
                     !.found_egress_failures = b[3]] :
        b \in GoodBools \X GoodBools \X GoodBools}

\* ------------------------------------------------------------------- state
VARIABLES
    args_hcp,      \* --hcp / --no-hcp / neither: True3, False3, None
    since_dt,      \* --since
    until_dt,      \* --until
    hosted,        \* the external service: the ids of the hosted clusters
    pc,            \* where the script is
    err,           \* the exception that ended the script, or None
    nread,         \* rows the csv reader has yielded
    cvrs,          \* cluster id -> merged ClusterVerifierRecord
    hcp_cache,     \* manager.dict(): cluster id -> is_hostedcluster result
    total,         \* the printed "Total deduplicated records" (-1: not printed)
    outcomes,      \* Outcome -> list of the cluster ids of its records
    stats,         \* the printed measures, <<>> before they are printed
    fp_endpoints,  \* endpoint -> number of false positives naming it
    calls,         \* the external service: lookups received per cluster id
    passed,        \* history: ids of the rows inside the window and the HCP filter
    edge,          \* history: ids of such rows at since or at until
    egress_seen,   \* history: per id, what was observed of found_egress_failures
    url_seen,      \* history: per id, what was observed of log_download_url
    stray,         \* history: ids whose record a row outside the window changed
    bad_seen,      \* history: a row from_dict has to reject was read
    obs,           \* studies: the observations under study
    order          \* studies: the indices of obs merged so far, in merge order

vars ==
    <<args_hcp, since_dt, until_dt, hosted, pc, err, nread, cvrs, hcp_cache,
      total, outcomes, stats, fp_endpoints, calls, passed, edge, egress_seen,
      url_seen, stray, bad_seen, obs, order>>

args == <<args_hcp, since_dt, until_dt, hosted>>
history == <<passed, edge, egress_seen, url_seen, stray, bad_seen>>
study == <<obs, order>>

\* The state of the script when the ingestion loop starts, whatever its arguments.
AtStart ==
    /\ pc = "ingest"
    /\ err = None
    /\ nread = 0
    /\ cvrs = EmptyMap
    /\ hcp_cache = EmptyMap
    /\ total = -1
    /\ outcomes = EmptyMap
    /\ stats = <<>>
    /\ fp_endpoints = EmptyMap
    /\ calls = [c \in Cids |-> 0]
    /\ passed = {}
    /\ edge = {}
    /\ egress_seen = [c \in Cids |-> "no"]
    /\ url_seen = [c \in Cids |-> "no"]
    /\ stray = {}
    /\ bad_seen = FALSE

\* Without --hcp / --no-hcp any window; with one of them any lower bound, and
\* the service knowing c1 or both clusters as hosted.
Init ==
    /\ \/ /\ args_hcp = None
          /\ since_dt \in Times
          /\ until_dt \in Times
          /\ hosted = {"c1"}
       \/ /\ args_hcp \in {True3, False3}
          /\ since_dt \in Times
          /\ until_dt = MaxTime
          /\ hosted \in {{"c1"}, Cids}
    /\ AtStart
    /\ obs = <<>>
    /\ order = <<>>

\* ---------------------------------------------- what the history variables see
\* A row the parser has to reject for its cluster id, its lifecycle or in-flight
\* state, or a boolean token.
Defective(row) ==
    \/ row.cid \in {"", "   ", Missing}
    \/ row.ocm_state = "bogus"
    \/ row.ocm_inflight_states = "[\"bogus\"]"
    \/ "maybe" \in {row.found_verifier_s3_logs, row.found_all_tests_passed,
                    row.found_egress_failures}

\* The instant t of an observation of cluster c lies in [since, until], bounds
\* included, and c is of the topology the --hcp / --no-hcp flag asks for.
Wanted(t, c) ==
    /\ ~(t < since_dt) /\ ~(t > until_dt)
    /\ \/ args_hcp = None
       \/ args_hcp = True3 /\ c \in hosted
       \/ args_hcp = False3 /\ c \notin hosted

\* egress_seen of an id after one more merged observation reporting e: "no"
\* (none was true yet), "yes" (one was true), "later" (one was true and a later
\* one was not).
Seen(old, e) ==
    IF e = True3 THEN (IF old = "no" THEN "yes" ELSE old)
    ELSE IF old = "no" THEN "no" ELSE "later"

\* url_seen of an id after one more merged observation whose log_download_url
\* column held u: "no" (no observation yet), "invalid" (none had a well-formed
\* URL), "valid" (one had).
SeenUrl(old, u) ==
    IF old = "valid" \/ u \in ValidUrls THEN "valid" ELSE "invalid"

\* --------------------------------------------------------- the ingestion loop
\* A window that leaves its bounds out.
InWindowStrict(cvr) == cvr.timestamp.t > since_dt /\ cvr.timestamp.t < until_dt

\* Line 58: cvr.timestamp >= since_dt and cvr.timestamp <= until_dt.
InWindow(cvr) == cvr.timestamp.t >= since_dt /\ cvr.timestamp.t <= until_dt

\* A store that drops the first observation of an id.
StoreRowNoFirst(m, cvr) ==
    IF cvr.cid \in DOMAIN m
    THEN [m EXCEPT ![cvr.cid] = Merge(m[cvr.cid], cvr)]
    ELSE m

\* A store in which the latest observation of an id replaces its record.
StoreRowOverwrite(m, cvr) ==
    [c \in DOMAIN m \cup {cvr.cid} |-> IF c = cvr.cid THEN cvr ELSE m[c]]

\* A store that keeps the first observation of an id and ignores the later ones.
StoreRowKeepFirst(m, cvr) ==
    IF cvr.cid \in DOMAIN m THEN m
    ELSE [c \in DOMAIN m \cup {cvr.cid} |-> IF c = cvr.cid THEN cvr ELSE m[c]]

\* Lines 61-65: merge into the record of the id, or store the first one.
StoreRow(m, cvr) ==
    IF cvr.cid \in DOMAIN m
    THEN [m EXCEPT ![cvr.cid] = Merge(m[cvr.cid], cvr)]
    ELSE [c \in DOMAIN m \cup {cvr.cid} |-> IF c = cvr.cid THEN cvr ELSE m[c]]

Bool3(b) == IF b THEN True3 ELSE False3

\* An uncaught exception ends the script.
Raise(e) ==
    /\ pc' = "crashed"
    /\ err' = e
    /\ UNCHANGED <<args, cvrs, hcp_cache, total, outcomes, stats, fp_endpoints, calls,
                   study>>

\* Lines 54-65: one iteration of `for row in reader`.
Ingest(row) ==
    /\ pc = "ingest"
    /\ nread < MaxRows
    /\ nread' = nread + 1
    /\ bad_seen' = (bad_seen \/ Defective(row))
    /\ LET p == from_dict(row)
       IN  IF ~p.ok
           THEN Raise(p.err) /\ UNCHANGED <<passed, edge, egress_seen, url_seen, stray>>
           ELSE IF p.cvr.timestamp.tz = None
           THEN \* an aware datetime does not compare with a naive one
                Raise("TypeError")
                /\ UNCHANGED <<passed, edge, egress_seen, url_seen, stray>>
           ELSE LET cvr == p.cvr
                    look == is_hostedcluster(cvr.cid, hcp_cache, TRUE, hosted, calls)
                    asked == InWindow(cvr) /\ args_hcp # None
                    keep == InWindow(cvr)
                            /\ (args_hcp = None \/ args_hcp = Bool3(look.v))
                    want == Wanted(cvr.timestamp.t, cvr.cid)
                IN  /\ hcp_cache' = IF asked THEN look.cache ELSE hcp_cache
                    /\ calls' = IF asked THEN look.n ELSE calls
                    /\ cvrs' = IF keep THEN StoreRow(cvrs, cvr) ELSE cvrs
                    /\ passed' = IF want THEN passed \cup {cvr.cid} ELSE passed
                    /\ edge' = IF want /\ cvr.timestamp.t \in {since_dt, until_dt}
                               THEN edge \cup {cvr.cid} ELSE edge
                    /\ url_seen' =
                           IF want
                           THEN [url_seen EXCEPT
                                    ![cvr.cid] = SeenUrl(@, row.log_download_url)]
                           ELSE url_seen
                    /\ egress_seen' =
                           IF want
                           THEN [egress_seen EXCEPT
                                    ![cvr.cid] = Seen(@, cvr.found_egress_failures)]
                           ELSE egress_seen
                    /\ stray' =
                           IF (cvr.timestamp.t < since_dt \/ cvr.timestamp.t > until_dt)
                              /\ cvrs' # cvrs
                           THEN stray \cup {cvr.cid} ELSE stray
                    /\ UNCHANGED <<args, pc, err, total, outcomes, stats, fp_endpoints,
                                   study>>

\* Lines 66-69: the reader is exhausted, the Manager (and its dict) is shut
\* down, the file is closed and the total is printed.
EndOfInput ==
    /\ pc = "ingest"
    /\ pc' = "bucket"
    /\ hcp_cache' = EmptyMap
    /\ total' = Cardinality(DOMAIN cvrs)
    /\ UNCHANGED <<args, err, nread, cvrs, outcomes, stats, fp_endpoints, calls,
                   history, study>>

\* ------------------------------------------------------ the outcome bucketing
\* A bucketing that starts a new list for every record.
PutOverwrite(o, key, cid) ==
    [k \in DOMAIN o \cup {key} |-> IF k = key THEN <<cid>> ELSE o[k]]

\* Lines 76-80: append to the list of the outcome; a key the dict does not have
\* (KeyError) gets a new list.
Put(o, key, cid) ==
    IF key \in DOMAIN o
    THEN [o EXCEPT ![key] = Append(@, cid)]
    ELSE [k \in DOMAIN o \cup {key} |-> IF k = key THEN <<cid>> ELSE o[k]]

\* Lines 75-80: `for _, cvr in cvrs.items()`. The order of the items is one
\* fixed order of the ids; only the lengths of the lists are printed.
RECURSIVE Sorted(_, _, _)
Sorted(o, m, ids) ==
    IF ids = {} THEN o
    ELSE LET c == CHOOSE x \in ids : TRUE
         IN  Sorted(Put(o, get_outcome(m[c]), c), m, ids \ {c})

\* Lines 72-84.
Bucket ==
    /\ pc = "bucket"
    /\ pc' = "stats"
    /\ outcomes' = Sorted([o \in Outcome |-> <<>>], cvrs, DOMAIN cvrs)
    /\ UNCHANGED <<args, err, nread, cvrs, hcp_cache, total, stats, fp_endpoints,
                   calls, history, study>>

\* ------------------------------------------------------ statistical measures
tp == Len(outcomes["TRUE_POSITIVE"])
tn == Len(outcomes["TRUE_NEGATIVE"])
fn == Len(outcomes["FALSE_NEGATIVE"])
fp == Len(outcomes["FALSE_POSITIVE"])

\* Lines 97-103: the measures as <<numerator, denominator>>, in the order the
\* script divides.
Measures ==
    <<  <<"fdr", fp, fp + tp>>,
        <<"fpr", fp, fp + tn>>,
        <<"f1", 2 * tp, 2 * tp + fp + fn>>,
        <<"acc", tp + tn, tp + tn + fp + fn>>,
        <<"precision", tp, tp + fp>>,
        <<"recall", tp, tp + fn>>,
        <<"specificity", tn, tn + fp>>  >>

\* Python's `/` raises ZeroDivisionError on a zero divisor.
DivisionFails == \E i \in 1..Len(Measures) : Measures[i][3] = 0

\* Lines 88-109.
Stats ==
    /\ pc = "stats"
    /\ IF DivisionFails
       THEN /\ pc' = "crashed"
            /\ err' = "ZeroDivisionError"
            /\ stats' = stats
       ELSE /\ pc' = "report"
            /\ err' = err
            /\ stats' = Measures
    /\ UNCHANGED <<args, nread, cvrs, hcp_cache, total, outcomes, fp_endpoints,
                   calls, history, study>>

\* ------------------------------------------------- the false-positive report
\* Lines 118-122: count the endpoints of one record.
RECURSIVE Tally(_, _)
Tally(t, eps) ==
    IF eps = <<>> THEN t
    ELSE LET ep == Head(eps)
         IN  Tally(IF ep \in DOMAIN t
                   THEN [t EXCEPT ![ep] = @ + 1]
                   ELSE [e \in DOMAIN t \cup {ep} |-> IF e = ep THEN 1 ELSE t[e]],
                   Tail(eps))

\* Line 115: cvr.is_hostedcluster() is called without a cache.
ReportLookup(cid, n) == is_hostedcluster(cid, EmptyMap, FALSE, hosted, n).n

\* Lines 113-122: `for cvr in outcomes[Outcome.FALSE_POSITIVE]`.
RECURSIVE Printed(_, _)
Printed(st, cids) ==
    IF cids = <<>> THEN st
    ELSE Printed([n |-> ReportLookup(Head(cids), st.n),
                  t |-> Tally(st.t, get_egress_failures(Head(cids)))],
                 Tail(cids))

\* Lines 111-124.
Report ==
    /\ pc = "report"
    /\ pc' = "done"
    /\ LET st == Printed([n |-> calls, t |-> fp_endpoints], outcomes["FALSE_POSITIVE"])
       IN  /\ calls' = st.n
           /\ fp_endpoints' = st.t
    /\ UNCHANGED <<args, err, nread, cvrs, hcp_cache, total, outcomes, stats, history,
                   study>>

Next ==
    \/ \E row \in RawRows : Ingest(row)
    \/ EndOfInput
    \/ Bucket
    \/ Stats
    \/ Report

Spec == Init /\ [][Next]_vars

\* ------------------------------------------- study: the classification
\* The script after the ingestion loop and the print of the total, with one or
\* two merged records of any combination of the three boolean fields.
InitClassify ==
    /\ args_hcp = None
    /\ since_dt = 1
    /\ until_dt = MaxTime
    /\ hosted = {"c1"}
    /\ \E ids \in (SUBSET Cids) \ {{}} :
          \E m \in [ids -> UNION {ClassifyRows(c) : c \in ids}] :
             /\ \A c \in ids : m[c].cid = c
             /\ cvrs = [c \in ids |-> from_dict(m[c]).cvr]
    /\ pc = "bucket"
    /\ err = None
    /\ nread = Cardinality(DOMAIN cvrs)
    /\ hcp_cache = EmptyMap
    /\ total = Cardinality(DOMAIN cvrs)
    /\ outcomes = EmptyMap
    /\ stats = <<>>
    /\ fp_endpoints = EmptyMap
    /\ calls = [c \in Cids |-> 0]
    /\ passed = DOMAIN cvrs
    /\ edge = DOMAIN cvrs
    /\ egress_seen = [c \in Cids |->
                         IF c \in DOMAIN cvrs /\ cvrs[c].found_egress_failures = True3
                         THEN "yes" ELSE "no"]
    /\ url_seen = [c \in Cids |-> IF c \in DOMAIN cvrs THEN "valid" ELSE "no"]
    /\ stray = {}
    /\ bad_seen = FALSE
    /\ obs = <<>>
    /\ order = <<>>

NextClassify ==
    \/ Bucket
    \/ Stats
    \/ Report

SpecClassify == InitClassify /\ [][NextClassify]_vars

\* ------------------------------------------------- study: the merge
\* A record of c1 is stored and one observation of c1 is about to be merged
\* into it.
InitMerge ==
    /\ args_hcp = None
    /\ since_dt = 1
    /\ until_dt = MaxTime
    /\ hosted = {"c1"}
    /\ AtStart
    /\ \E a \in MergeRows, b \in MergeRows :
          /\ obs = <<from_dict(a).cvr, from_dict(b).cvr>>
    /\ order = <<>>

\* Lines 61-65 for the first observation, then for the second one, then for
\* the second one again.
MergeNext ==
    /\ pc = "ingest"
    /\ Len(order) < 3
    /\ LET i == IF order = <<>> THEN 1 ELSE 2
       IN  /\ cvrs' = StoreRow(cvrs, obs[i])
           /\ order' = Append(order, i)
    /\ UNCHANGED <<args, pc, err, nread, hcp_cache, total, outcomes, stats,
                   fp_endpoints, calls, history, obs>>

SpecMerge == InitMerge /\ [][MergeNext]_vars

\* ------------------------------------------- study: the order of folding
\* FoldLen observations of c1 are about to be merged, in any order.
InitFold ==
    /\ args_hcp = None
    /\ since_dt = 1
    /\ until_dt = MaxTime
    /\ hosted = {"c1"}
    /\ AtStart
    /\ \E rows \in [1..FoldLen -> FoldRows] :
          obs = [i \in 1..FoldLen |-> from_dict(rows[i]).cvr]
    /\ order = <<>>

\* Lines 61-65 for an observation not merged yet.
FoldNext ==
    /\ pc = "ingest"
    /\ \E i \in 1..Len(obs) :
          /\ \A k \in 1..Len(order) : order[k] # i
          /\ cvrs' = StoreRow(cvrs, obs[i])
          /\ order' = Append(order, i)
    /\ UNCHANGED <<args, pc, err, nread, hcp_cache, total, outcomes, stats,
                   fp_endpoints, calls, history, obs>>

SpecFold == InitFold /\ [][FoldNext]_vars

\* Folding a sequence of observations in its own order, as the ingestion loop
\* does with the rows of a file.
RECURSIVE Folded(_, _)
Folded(m, seq) ==
    IF seq = <<>> THEN m ELSE Folded(StoreRow(m, Head(seq)), Tail(seq))


\* ===================================================================== claims
\* The cluster ids held by the lists of o, as one list.
RECURSIVE Listed(_, _)
Listed(o, keys) ==
    IF keys = {} THEN <<>>
    ELSE LET k == CHOOSE x \in keys : TRUE
         IN  o[k] \o Listed(o, keys \ {k})

Bools(cvr) ==
    <<cvr.found_egress_failures, cvr.found_all_tests_passed, cvr.found_verifier_s3_logs>>

Range3(cvr) == {Bools(cvr)[k] : k \in 1..3}

\* C1: the map of merged records holds exactly one entry per cluster id among
\* the rows that passed the filter, each under its own id, and the printed
\* "Total deduplicated records" is the number of those ids.
C1_OneRecordPerId ==
    /\ DOMAIN cvrs = passed
    /\ \A c \in DOMAIN cvrs : cvrs[c].cid = c
    /\ total # -1 => total = Cardinality(passed)

\* Two rows or more, no filter, and a total of 1: rows of one id were merged.
C1_Witness ==
    /\ pc = "bucket" /\ nread >= 2 /\ total = 1
    /\ args_hcp = None /\ since_dt = 1 /\ until_dt = MaxTime

\* C2: merging an observation b into merge(a, b) again gives merge(a, b), field
\* by field: after a, b and b again the stored record is the one after a and b.
C2_MergeIdempotent ==
    Len(order) = 3 => cvrs = Folded(EmptyMap, <<obs[1], obs[2]>>)

\* b was merged twice and the record is neither a nor b.
C2_Witness ==
    /\ order = <<1, 2, 2>>
    /\ cvrs["c1"] # obs[1]
    /\ cvrs["c1"] # obs[2]

\* C3: folding the observations of one cluster id in any order gives the
\* found_egress_failures, found_all_tests_passed and found_verifier_s3_logs
\* that folding them in the order of the file gives.
C3_OrderIndependent ==
    Len(order) = Len(obs) =>
        Bools(cvrs["c1"]) = Bools(Folded(EmptyMap, obs)["c1"])

\* All observations were folded, last one first and first one last, and the
\* first and the last differ in every one of the three fields.
C3_Witness ==
    /\ Len(obs) >= 2
    /\ Len(order) = Len(obs)
    /\ order[1] = Len(obs)
    /\ order[Len(obs)] = 1
    /\ \A k \in 1..3 : Bools(obs[1])[k] # Bools(obs[Len(obs)])[k]

\* C4: once an observation merged for a cluster id had found_egress_failures
\* true, the merged record of the id has it true in every later state.
C4_StickyEgress ==
    \A c \in Cids :
        egress_seen[c] # "no" =>
            c \in DOMAIN cvrs /\ cvrs[c].found_egress_failures = True3

\* An observation that is not true was merged after a true one, and the run
\* went on to the bucketing.
C4_Witness ==
    /\ pc = "stats"
    /\ \E c \in Cids : egress_seen[c] = "later"

\* C5: over a whole run the external lookup is executed at most once per
\* cluster id.
C5_OneLookupPerId == \A c \in Cids : calls[c] <= 1

\* C6: a measure with a zero denominator is reported as undefined; the run
\* never ends with a division error.
C6_NoDivisionError == ~(pc = "crashed" /\ err = "ZeroDivisionError")

\* C7: an observation strictly before since or strictly after until changes no
\* merged record, and one at since or at until (that passes the HCP filter) has
\* a merged record; every merged record's timestamp lies in the window.
C7_Window ==
    /\ stray = {}
    /\ edge \subseteq DOMAIN cvrs
    /\ \A c \in DOMAIN cvrs :
          ~(cvrs[c].timestamp.t < since_dt) /\ ~(cvrs[c].timestamp.t > until_dt)

\* Without an HCP filter rows were read, none raised, and the total is 0: every
\* one of them was outside the window.
C7_Witness ==
    /\ pc = "bucket" /\ args_hcp = None /\ nread >= 1 /\ total = 0

C9_ParseFailure ==
    /\ bad_seen =>
          /\ pc = "crashed"
          /\ err \in {"ValueError", "AttributeError"}
          /\ total = -1
          /\ DOMAIN outcomes = {}
    /\ \A c \in Cids :
          url_seen[c] = "invalid" =>
              c \in DOMAIN cvrs /\ cvrs[c].log_download_url = None

\* A record was stored and the next row was one from_dict rejects.
C9_Witness ==
    /\ bad_seen /\ pc = "crashed" /\ nread >= 2 /\ DOMAIN cvrs # {}

\* C10: after the bucketing every merged record is in exactly one list, once:
\* the lengths of the lists add up to the number of merged records and to the
\* printed total.
C10_BucketsPartition ==
    DOMAIN outcomes # {} =>
        LET all == Listed(outcomes, DOMAIN outcomes)
        IN  /\ Len(all) = Cardinality(DOMAIN cvrs)
            /\ Len(all) = total
            /\ \A c \in DOMAIN cvrs :
                  Cardinality({i \in 1..Len(all) : all[i] = c}) = 1
            /\ tp + tn + fp + fn + Len(outcomes["UNKNOWN"]) = total

\* The report was printed for two merged records.
C10_Witness == pc = "done" /\ total = 2

====
